---- MODULE Spec2Model ----
(***************************************************************************)
(* Model of the two report generators of false-sharing-demo:               *)
(*   make_presentation.py              (text-only deck)                    *)
(*   make_presentation_with_charts.py  (deck with charts and drawings)     *)
(*                                                                         *)
(* Conventions.                                                            *)
(*  - Times and ratios are decimal literals with two fractional digits in  *)
(*    the source; they are held as integers in hundredths (76.00 -> 7600,  *)
(*    1.19 -> 119).  Formatting turns them back into text.                 *)
(*  - Python integers are unbounded; the two throughput figures exceed     *)
(*    2^31, so they are held as base-1000 limbs, most significant first    *)
(*    (2666666667 -> <<2, 666, 666, 667>>).                                *)
(*  - The source's non-ASCII punctuation (em dash, arrow, almost-equal)    *)
(*    is written "-", "->", "~" in string literals.                        *)
(*  - The pptx / matplotlib / PIL calls are external: each may raise, and  *)
(*    an exception that is not caught ends the script at that statement.   *)
(***************************************************************************)
EXTENDS Integers, Sequences, FiniteSets, TLC

VARIABLES
    script,     \* which program runs: "text" or "charts"
    runs,       \* the dataset's runs: sequence of <<fs, opt, speedup>>
    averages,   \* the dataset's averages (text deck): record
    pc,         \* the statement about to execute
    status,     \* "running", "done" (fell off the end) or "failed" (uncaught)
    error,      \* "none", or the kind of exception that ended the script
    slides,     \* prs.slides, in order of add_slide
    font,       \* "unset", "arial" or "default"
    files,      \* names of the files written to the working directory
    saved,      \* the slides of the deck file written by prs.save
    stdout,     \* lines printed
    log         \* external effects of this run, in order

vars == <<script, runs, averages, pc, status, error, slides, font, files,
          saved, stdout, log>>

(* Bounds *)

MaxRuns == 3

(* Data of make_presentation.py *)

system_info ==
    [processors |-> 16, max_threads |-> 16, test_threads |-> 4,
     iterations_per_thread |-> 50000000, total_ops |-> 200000000,
     cache_line |-> 64]

memory_layout ==
    [unoptimized |->
        [sizeof |-> "16 bytes", spacing |-> "4 bytes", offset0 |-> "0 bytes",
         offset1 |-> "4 bytes", note |-> "Multiple counters in same cache line"],
     optimized |->
        [sizeof |-> "64 bytes", spacing |-> "64 bytes", offset0 |-> "0 bytes",
         offset1 |-> "64 bytes", note |-> "Each counter in separate cache line"]]

measured_runs ==
    << <<7600, 6400, 119>>, <<7100, 8100, 88>>, <<7800, 7400, 105>> >>

(* Variant: a mistyped optimized average *)
measured_averages_typo ==
    [false_sharing |-> 7500, optimized |-> 7400, speedup |-> 103]

measured_averages ==
    [false_sharing |-> 7500, optimized |-> 7300, speedup |-> 103]

(* Variant: the gain truncated instead of rounded *)
throughput_truncated ==
    [false_sharing |-> <<2, 666, 666, 667>>,
     optimized     |-> <<2, 739, 726, 27>>,
     gain          |-> 102]

throughput ==
    [false_sharing |-> <<2, 666, 666, 667>>,
     optimized     |-> <<2, 739, 726, 27>>,
     gain          |-> 103]

out_path == "false_sharing_presentation.pptx"

(* Datasets the model runs the scripts on: every sequence of at most       *)
(* MaxRuns measured triples, and every speedup figure that occurs in the   *)
(* data (or the neutral 1.00) as the average speedup.                      *)
RunPool == { measured_runs[i] : i \in 1..Len(measured_runs) }

SpeedupPool == { 88, 100, 103, 105, 119 }

RunsDatasets == UNION { [1..n -> RunPool] : n \in 0..MaxRuns }

(* Number formatting (Python format specs) *)

Pad2(n) == IF n < 10 THEN "0" \o ToString(n) ELSE ToString(n)

Pad3(n) == IF n < 10 THEN "00" \o ToString(n)
           ELSE IF n < 100 THEN "0" \o ToString(n) ELSE ToString(n)

(* f"{x:.2f}" for x = c/100, c >= 0 *)
Fmt2f(c) == ToString(c \div 100) \o "." \o Pad2(c % 100)

(* f"{x:.1f}" for x = t/10, any sign *)
Fmt1f(t) ==
    LET a == IF t < 0 THEN -t ELSE t
    IN  (IF t < 0 THEN "-" ELSE "") \o ToString(a \div 10) \o "." \o ToString(a % 10)

(* f"{n:,}" for n held as base-1000 limbs *)
RECURSIVE FmtTail(_)
FmtTail(limbs) ==
    IF limbs = <<>> THEN ""
    ELSE "," \o Pad3(Head(limbs)) \o FmtTail(Tail(limbs))

FmtThousands(limbs) == ToString(Head(limbs)) \o FmtTail(Tail(limbs))

(* round(num/den) to the nearest integer, ties to even, num >= 0, den > 0 *)
RoundDiv(num, den) ==
    LET q == num \div den
        r == num % den
    IN  IF 2 * r > den \/ (2 * r = den /\ q % 2 = 1) THEN q + 1 ELSE q

(* Helpers of make_presentation.py *)

add_title_slide(title, subtitle) ==
    [layout |-> 0, title |-> title,
     subtitle |-> IF subtitle # "" THEN subtitle ELSE "",
     paragraphs |-> <<>>, pictures |-> <<>>]

(* The loop of add_bullet_slide: the cleared body keeps one empty          *)
(* paragraph; bullet 0 fills it, every later bullet appends one.           *)
RECURSIVE FillBody(_, _, _)
FillBody(body, bullets, i) ==
    IF i > Len(bullets) THEN body
    ELSE IF i = 1 THEN FillBody(<<bullets[1]>> \o Tail(body), bullets, 2)
    ELSE FillBody(Append(body, bullets[i]), bullets, i + 1)

add_bullet_slide(title, bullets) ==
    [layout |-> 1, title |-> title, subtitle |-> "",
     paragraphs |-> FillBody(<<"">>, bullets, 1), pictures |-> <<>>]

mem_bullets ==
    << "Unoptimized (False Sharing):",
       "  sizeof(SharedData): " \o memory_layout.unoptimized.sizeof,
       "  Counter spacing: " \o memory_layout.unoptimized.spacing,
       "  counter[0] at offset: " \o memory_layout.unoptimized.offset0,
       "  counter[1] at offset: " \o memory_layout.unoptimized.offset1,
       "  -> " \o memory_layout.unoptimized.note,
       "",
       "Optimized (Padded):",
       "  sizeof(PaddedCounter): " \o memory_layout.optimized.sizeof,
       "  Counter spacing: " \o memory_layout.optimized.spacing,
       "  padded_counter[0] at offset: " \o memory_layout.optimized.offset0,
       "  padded_counter[1] at offset: " \o memory_layout.optimized.offset1,
       "  -> " \o memory_layout.optimized.note >>

sys_bullets ==
    << "Processors: " \o ToString(system_info.processors),
       "Max threads: " \o ToString(system_info.max_threads),
       "Test threads: " \o ToString(system_info.test_threads),
       "Iterations/thread: " \o ToString(system_info.iterations_per_thread),
       "Total ops/run: " \o ToString(system_info.total_ops),
       "Cache line size: " \o ToString(system_info.cache_line) \o " bytes" >>

(* enumerate(runs, start=1) with the f-string of line 139 *)
run_line(idx, r) ==
    "Run " \o ToString(idx) \o ": False sharing " \o Fmt2f(r[1])
        \o " ms, Optimized " \o Fmt2f(r[2]) \o " ms, Speedup " \o Fmt2f(r[3]) \o "x"

(* Variant: enumerate without start=1 *)
run_lines_from_zero(rs) == [idx \in 1..Len(rs) |-> run_line(idx - 1, rs[idx])]

run_lines(rs) == [idx \in 1..Len(rs) |-> run_line(idx, rs[idx])]

(* Variant: the reduction of the time itself, (1 - 1/speedup) * 100 *)
time_reduction_of_time(speedup) == RoundDiv((speedup - 100) * 1000, speedup)

(* (averages['speedup'] - 1.0) * 100.0, in tenths of a percent *)
time_reduction(speedup) == (speedup - 100) * 10

speedup_line(avg) ==
    "Speedup:             " \o Fmt2f(avg.speedup) \o "x ("
        \o Fmt1f(time_reduction(avg.speedup)) \o "% time reduction)"

gain_line(tp) == "Throughput gain:            " \o Fmt2f(tp.gain) \o "x"

final_averages(avg, tp) ==
    << "Avg without padding: " \o Fmt2f(avg.false_sharing) \o " ms",
       "Avg with padding:    " \o Fmt2f(avg.optimized) \o " ms",
       speedup_line(avg),
       "",
       "Throughput (False sharing): " \o FmtThousands(tp.false_sharing) \o " ops/sec",
       "Throughput (Optimized):     " \o FmtThousands(tp.optimized) \o " ops/sec",
       gain_line(tp) >>

(* Control: uncaught exceptions and sequencing *)

Running(s, at) == script = s /\ status = "running" /\ pc = at

(* An exception nothing catches: the script stops at the current statement *)
Raise(kind) ==
    /\ status' = "failed"
    /\ error' = kind
    /\ UNCHANGED <<script, runs, averages, pc, slides, font, files, saved, stdout, log>>

(* prs.slides.add_slide(...) plus the statements that fill the new slide *)
AddSlide(at, next, sld) ==
    /\ pc = at
    /\ \/ /\ slides' = Append(slides, sld)
          /\ log' = Append(log, [op |-> "add_slide", arg |-> sld.title])
          /\ pc' = next
          /\ UNCHANGED <<script, runs, averages, status, error, font, files,
                         saved, stdout>>
       \/ Raise("external")

(* A step that only changes objects in memory (figure, image, drawing) *)
Compute(next) ==
    \/ /\ pc' = next
       /\ UNCHANGED <<script, runs, averages, status, error, slides, font,
                      files, saved, stdout, log>>
    \/ Raise("external")

(* make_presentation.py, statement by statement *)

TextTitle ==
    /\ Running("text", "title")
    /\ AddSlide("title", "agenda",
           add_title_slide("False Sharing - Demo & Mitigation",
               "Dubois et al. (1990) & Jeremiassen & Eggers (1993)"))

TextAgenda ==
    /\ Running("text", "agenda")
    /\ AddSlide("agenda", "what_is",
           add_bullet_slide("Agenda",
               << "What is false sharing?",
                  "Demonstration code and mitigation approach",
                  "Memory-layout evidence",
                  "Measured results (your run)",
                  "Analysis and recommendations" >>))

TextWhatIs ==
    /\ Running("text", "what_is")
    /\ AddSlide("what_is", "unoptimized",
           add_bullet_slide("What is False Sharing?",
               << "Independent variables used by different threads share a cache line",
                  "Writes cause cache-line invalidation and coherence traffic",
                  "Leads to significant slowdowns in multithreaded code" >>))

(* Variant: the second concept slide left out *)
TextUnoptimizedOmitted ==
    /\ Running("text", "unoptimized")
    /\ Compute("optimized")

TextUnoptimized ==
    /\ Running("text", "unoptimized")
    /\ AddSlide("unoptimized", "optimized",
           add_bullet_slide("Unoptimized Code (concept)",
               << "Shared array of counters packed contiguously",
                  "Each thread increments counter[tid] rapidly",
                  "Counters fall into same cache line -> false sharing" >>))

TextOptimized ==
    /\ Running("text", "optimized")
    /\ AddSlide("optimized", "memory",
           add_bullet_slide("Optimized Code (compile-time padding)",
               << "Per-thread padded struct: int counter; char pad[64 - sizeof(int)];",
                  "Each counter aligned to its own cache line (alignas(64) or __attribute__)",
                  "Eliminates cache invalidation between threads" >>))

TextMemory ==
    /\ Running("text", "memory")
    /\ AddSlide("memory", "system",
           add_bullet_slide("Memory Layout - Measured", mem_bullets))

TextSystem ==
    /\ Running("text", "system")
    /\ AddSlide("system", "per_run",
           add_bullet_slide("System & Test Parameters", sys_bullets))

TextPerRun ==
    /\ Running("text", "per_run")
    /\ AddSlide("per_run", "final",
           add_bullet_slide("Per-Run Results", run_lines(runs)))

TextFinal ==
    /\ Running("text", "final")
    /\ AddSlide("final", "analysis",
           add_bullet_slide("Final Averages", final_averages(averages, throughput)))

TextAnalysis ==
    /\ Running("text", "analysis")
    /\ AddSlide("analysis", "recommendations",
           add_bullet_slide("Analysis",
               << "Padding reduced false sharing; observed improvement was small (~1.03x)",
                  "Possible reasons: hardware cache-coherence efficiency, measurement noise",
                  "Recommendations: increase workload, pin threads, measure cache misses" >>))

TextRecommendations ==
    /\ Running("text", "recommendations")
    /\ AddSlide("recommendations", "references",
           add_bullet_slide("Practical Recommendations",
               << "Use padding / alignas(64) for per-thread hot data",
                  "Prefer compile-time layout changes when access patterns are static",
                  "Combine with thread pinning and larger workloads for clearer gains" >>))

TextReferences ==
    /\ Running("text", "references")
    /\ AddSlide("references", "save",
           add_bullet_slide("References",
               << "Dubois, Scheurich & Briggs (1990) - False sharing analysis",
                  "Jeremiassen & Eggers (1993) - Compile-time data transformations" >>))

(* prs.save(path): the deck as it stands is written to path *)
SaveDeck(path, next) ==
    \/ /\ files' = files \cup {path}
       /\ saved' = slides
       /\ log' = Append(log, [op |-> "save", arg |-> path])
       /\ pc' = next
       /\ UNCHANGED <<script, runs, averages, status, error, slides, font, stdout>>
    \/ Raise("external")

(* print('Wrote', path), the last statement *)
PrintWrote(path) ==
    /\ stdout' = Append(stdout, "Wrote " \o path)
    /\ log' = Append(log, [op |-> "print", arg |-> path])
    /\ pc' = "end"
    /\ status' = "done"
    /\ UNCHANGED <<script, runs, averages, error, slides, font, files, saved>>

TextSave == Running("text", "save") /\ SaveDeck(out_path, "print")

TextPrint == Running("text", "print") /\ PrintWrote(out_path)

(* Data of make_presentation_with_charts.py *)

chart_averages == <<7500, 7300>>

chart_throughput == << <<2, 666, 666, 667>>, <<2, 739, 726, 27>> >>

run_ids == <<1, 2, 3>>

fs_times(rs) == [i \in 1..Len(rs) |-> rs[i][1]]

opt_times(rs) == [i \in 1..Len(rs) |-> rs[i][2]]

out_pptx == "false_sharing_presentation_with_charts.pptx"

(* Variant: the quotient taken the other way round *)
avg_speedup_inverted(avg) == RoundDiv(avg[2] * 100, avg[1])

(* averages[0]/averages[1] as printed by :.2f, in hundredths.  The float   *)
(* quotient is the rational one to within 1 ulp and is nowhere near a       *)
(* rounding tie for the data of the script.                                 *)
avg_speedup(avg) == RoundDiv(avg[1] * 100, avg[2])

(* (averages[0]-averages[1]) / averages[0] * 100 as printed by :.1f, in    *)
(* tenths of a percent                                                      *)
avg_reduction(avg) == RoundDiv((avg[1] - avg[2]) * 1000, avg[1])

summary_line(avg) ==
    "Avg speedup (padding): " \o Fmt2f(avg_speedup(avg)) \o "x (~"
        \o Fmt1f(avg_reduction(avg)) \o "% reduction)"

(* A slide as the charts script builds it: layout, title, then fields *)
chart_slide(layout, title, subtitle, paragraphs) ==
    [layout |-> layout, title |-> title, subtitle |-> subtitle,
     paragraphs |-> paragraphs, pictures |-> <<>>]

(* plt.savefig(name) / img.save(name) *)
WriteImage(op, name, next) ==
    \/ /\ files' = files \cup {name}
       /\ log' = Append(log, [op |-> op, arg |-> name])
       /\ pc' = next
       /\ UNCHANGED <<script, runs, averages, status, error, slides, font,
                      saved, stdout>>
    \/ Raise("external")

(* sld.shapes.add_picture(name, left, top, width=...) on the newest slide; *)
(* lengths in hundredths of an inch                                         *)
AddPicture(name, left, top, width, next) ==
    IF name \notin files
    THEN Raise("FileNotFoundError")
    ELSE \/ /\ slides' = [slides EXCEPT ![Len(slides)].pictures =
                            Append(@, [file |-> name, left |-> left,
                                       top |-> top, width |-> width])]
            /\ log' = Append(log, [op |-> "add_picture", arg |-> name])
            /\ pc' = next
            /\ UNCHANGED <<script, runs, averages, status, error, font, files,
                           saved, stdout>>
         \/ Raise("external")

(* make_presentation_with_charts.py, statement by statement *)

(* lines 23-32: plt.plot(x, y) raises ValueError when len(x) # len(y) *)
ChartPlotTiming ==
    /\ Running("charts", "plot_timing")
    /\ IF Len(run_ids) # Len(fs_times(runs)) \/ Len(run_ids) # Len(opt_times(runs))
       THEN Raise("ValueError")
       ELSE Compute("save_timing")

ChartSaveTiming ==
    /\ Running("charts", "save_timing")
    /\ WriteImage("savefig", "timing_per_run.png", "plot_throughput")

ChartPlotThroughput ==
    /\ Running("charts", "plot_throughput")
    /\ Compute("save_throughput")

ChartSaveThroughput ==
    /\ Running("charts", "save_throughput")
    /\ WriteImage("savefig", "throughput_avg.png", "load_font")

(* Variant: no try/except around ImageFont.truetype *)
ChartLoadFontUncaught ==
    /\ Running("charts", "load_font")
    /\ \/ /\ font' = "arial"
          /\ pc' = "draw_false_sharing"
          /\ UNCHANGED <<script, runs, averages, status, error, slides, files,
                         saved, stdout, log>>
       \/ Raise("external")

(* lines 53-57: the only try/except; load_default reads built-in data *)
ChartLoadFont ==
    /\ Running("charts", "load_font")
    /\ \/ font' = "arial"
       \/ font' = "default"
    /\ pc' = "draw_false_sharing"
    /\ UNCHANGED <<script, runs, averages, status, error, slides, files,
                   saved, stdout, log>>

ChartDrawFalseSharing ==
    /\ Running("charts", "draw_false_sharing")
    /\ Compute("save_false_sharing")

ChartSaveFalseSharing ==
    /\ Running("charts", "save_false_sharing")
    /\ WriteImage("img.save", "illustration_false_sharing.png", "draw_padded")

ChartDrawPadded ==
    /\ Running("charts", "draw_padded")
    /\ Compute("save_padded")

(* Variant: the second illustration is drawn but never written *)
ChartSavePaddedOmitted ==
    /\ Running("charts", "save_padded")
    /\ Compute("new_prs")

ChartSavePadded ==
    /\ Running("charts", "save_padded")
    /\ WriteImage("img.save", "illustration_padded.png", "new_prs")

ChartNewPresentation ==
    /\ Running("charts", "new_prs")
    /\ \/ /\ slides' = <<>>
          /\ pc' = "title"
          /\ UNCHANGED <<script, runs, averages, status, error, font, files,
                         saved, stdout, log>>
       \/ Raise("external")

ChartTitle ==
    /\ Running("charts", "title")
    /\ AddSlide("title", "timing",
           chart_slide(0, "False Sharing - Demo & Mitigation",
                       "Timing and memory-layout charts included", <<>>))

ChartTiming ==
    /\ Running("charts", "timing")
    /\ AddSlide("timing", "timing_pic", chart_slide(5, "Per-run Timing", "", <<>>))

ChartTimingPicture ==
    /\ Running("charts", "timing_pic")
    /\ AddPicture("timing_per_run.png", 100, 120, 1000, "throughput")

ChartThroughput ==
    /\ Running("charts", "throughput")
    /\ AddSlide("throughput", "throughput_pic",
           chart_slide(5, "Average Throughput", "", <<>>))

ChartThroughputPicture ==
    /\ Running("charts", "throughput_pic")
    /\ AddPicture("throughput_avg.png", 100, 120, 800, "illustrations")

(* Variant: the illustrations slide is not added before its pictures *)
ChartIllustrationsOmitted ==
    /\ Running("charts", "illustrations")
    /\ Compute("false_sharing_pic")

ChartIllustrations ==
    /\ Running("charts", "illustrations")
    /\ AddSlide("illustrations", "false_sharing_pic",
           chart_slide(5, "Illustration: False Sharing vs Padded", "", <<>>))

ChartFalseSharingPicture ==
    /\ Running("charts", "false_sharing_pic")
    /\ AddPicture("illustration_false_sharing.png", 50, 100, 600, "padded_pic")

ChartPaddedPicture ==
    /\ Running("charts", "padded_pic")
    /\ AddPicture("illustration_padded.png", 700, 100, 600, "summary")

ChartSummary ==
    /\ Running("charts", "summary")
    /\ AddSlide("summary", "save",
           chart_slide(1, "Summary & Recommendations", "",
               << "Results summary:",
                  summary_line(chart_averages),
                  "Recommendations: use padding, thread pinning, and larger workloads" >>))

ChartSave == Running("charts", "save") /\ SaveDeck(out_pptx, "print")

ChartPrint == Running("charts", "print") /\ PrintWrote(out_pptx)

(* Specification *)

Init ==
    /\ script \in {"text", "charts"}
    /\ runs \in RunsDatasets
    /\ averages \in IF script = "text"
                    THEN { [measured_averages EXCEPT !.speedup = s] : s \in SpeedupPool }
                    ELSE { measured_averages }
    /\ pc = IF script = "text" THEN "title" ELSE "plot_timing"
    /\ status = "running"
    /\ error = "none"
    /\ slides = <<>>
    /\ font = "unset"
    /\ files = {}
    /\ saved = <<>>
    /\ stdout = <<>>
    /\ log = <<>>

Next ==
    \/ TextTitle \/ TextAgenda \/ TextWhatIs \/ TextUnoptimized \/ TextOptimized
    \/ TextMemory \/ TextSystem \/ TextPerRun \/ TextFinal \/ TextAnalysis
    \/ TextRecommendations \/ TextReferences \/ TextSave \/ TextPrint
    \/ ChartPlotTiming \/ ChartSaveTiming \/ ChartPlotThroughput
    \/ ChartSaveThroughput \/ ChartLoadFont \/ ChartDrawFalseSharing
    \/ ChartSaveFalseSharing \/ ChartDrawPadded \/ ChartSavePadded
    \/ ChartNewPresentation \/ ChartTitle \/ ChartTiming \/ ChartTimingPicture
    \/ ChartThroughput \/ ChartThroughputPicture \/ ChartIllustrations
    \/ ChartFalseSharingPicture \/ ChartPaddedPicture \/ ChartSummary
    \/ ChartSave \/ ChartPrint

Spec == Init /\ [][Next]_vars

(* Vocabulary of the properties *)

Titled(deck, t) == SelectSeq(deck, LAMBDA s : s.title = t)

Titles(deck) == [i \in 1..Len(deck) |-> deck[i].title]

Layouts(deck) == [i \in 1..Len(deck) |-> deck[i].layout]

PictureFiles(sld) == [i \in 1..Len(sld.pictures) |-> sld.pictures[i].file]

TextLines(sld) == SelectSeq(sld.paragraphs, LAMBDA t : t # "")

TextDone == script = "text" /\ status = "done"

ChartsDone == script = "charts" /\ status = "done"

TextTitles ==
    << "False Sharing - Demo & Mitigation", "Agenda", "What is False Sharing?",
       "Unoptimized Code (concept)", "Optimized Code (compile-time padding)",
       "Memory Layout - Measured", "System & Test Parameters", "Per-Run Results",
       "Final Averages", "Analysis", "Practical Recommendations", "References" >>

(* C1 as stated: the text deck that was saved has exactly 9 slides, one    *)
(* title slide followed by 8 bullet slides.                                 *)
C1_NineSlides ==
    TextDone =>
        /\ Len(saved) = 9
        /\ saved[1].layout = 0
        /\ \A i \in 2..Len(saved) : saved[i].layout = 1

(* C1 amended: the text deck that was saved has exactly 12 slides, one     *)
(* title slide followed by 11 bullet slides in the fixed order agenda,      *)
(* three concept slides, memory layout, system parameters, per-run results, *)
(* final averages, analysis, recommendations, references.                   *)
C1_TwelveSlides ==
    TextDone =>
        /\ Len(saved) = 12
        /\ saved[1].layout = 0
        /\ \A i \in 2..Len(saved) : saved[i].layout = 1
        /\ Titles(saved) = TextTitles
        /\ saved = slides

C1_Witness == TextDone /\ Len(saved) = 12 /\ files = {out_path}

(* C2: the chart deck that was saved has exactly 5 slides in the order     *)
(* title, per-run timing (one picture), throughput (one picture),           *)
(* illustrations (two pictures, side by side), bullet summary.              *)
C2_FiveSlides ==
    ChartsDone =>
        /\ Len(saved) = 5
        /\ Layouts(saved) = <<0, 5, 5, 5, 1>>
        /\ Titles(saved) = << "False Sharing - Demo & Mitigation", "Per-run Timing",
                              "Average Throughput",
                              "Illustration: False Sharing vs Padded",
                              "Summary & Recommendations" >>
        /\ PictureFiles(saved[1]) = <<>>
        /\ PictureFiles(saved[2]) = <<"timing_per_run.png">>
        /\ PictureFiles(saved[3]) = <<"throughput_avg.png">>
        /\ PictureFiles(saved[4]) = <<"illustration_false_sharing.png",
                                      "illustration_padded.png">>
        /\ saved[4].pictures[1].top = saved[4].pictures[2].top
        /\ saved[4].pictures[1].left + saved[4].pictures[1].width
               <= saved[4].pictures[2].left
        /\ PictureFiles(saved[5]) = <<>>
        /\ Len(saved[5].paragraphs) = 3

C2_Witness == ChartsDone /\ Len(saved) = 5 /\ out_pptx \in files

(* C3: on the 'Per-Run Results' slide the formatted lines are exactly one  *)
(* per run, in the order of runs; line i is numbered 'Run i' and carries    *)
(* the i-th run's unoptimized time, optimized time and speedup.             *)
C3_ExpectedLine(i, r) ==
    "Run " \o ToString(i) \o ": False sharing " \o Fmt2f(r[1]) \o " ms, Optimized "
        \o Fmt2f(r[2]) \o " ms, Speedup " \o Fmt2f(r[3]) \o "x"

C3_OneLinePerRun ==
    script = "text" =>
        /\ \A k \in 1..Len(slides) :
              slides[k].title = "Per-Run Results" =>
                  /\ Len(TextLines(slides[k])) = Len(runs)
                  /\ \A i \in 1..Len(runs) :
                        TextLines(slides[k])[i] = C3_ExpectedLine(i, runs[i])
        /\ status = "done" => Len(Titled(saved, "Per-Run Results")) = 1

C3_Witness ==
    /\ TextDone
    /\ runs = measured_runs
    /\ saved[8].paragraphs =
          << "Run 1: False sharing 76.00 ms, Optimized 64.00 ms, Speedup 1.19x",
             "Run 2: False sharing 71.00 ms, Optimized 81.00 ms, Speedup 0.88x",
             "Run 3: False sharing 78.00 ms, Optimized 74.00 ms, Speedup 1.05x" >>

(* C4 as stated: with an empty runs sequence neither script fails (other   *)
(* than by a fault of an external service); each reaches its save.          *)
C4_EmptyRunsNoFailure ==
    (runs = <<>> /\ error # "external") => status # "failed"

(* C5: in the charts script a failure to load the preferred font is the   *)
(* only failure recovered: the font step never ends the run and leaves the  *)
(* preferred or the default font set; a run that failed did so at another   *)
(* external call, takes no further step and has printed nothing.            *)
ChartEffectSteps ==
    { "plot_timing", "save_timing", "plot_throughput", "save_throughput",
      "draw_false_sharing", "save_false_sharing", "draw_padded", "save_padded",
      "new_prs", "title", "timing", "timing_pic", "throughput", "throughput_pic",
      "illustrations", "false_sharing_pic", "padded_pic", "summary", "save" }

C5_OnlyFontRecovered ==
    /\ [](script = "charts" /\ status = "failed" =>
             /\ pc \in ChartEffectSteps
             /\ stdout = <<>>
             /\ \A i \in 1..Len(log) : log[i].op # "print")
    /\ [][script = "charts" /\ pc = "load_font" =>
             /\ status' = "running"
             /\ pc' = "draw_false_sharing"
             /\ font' \in {"arial", "default"}]_vars
    /\ [][status # "failed"]_vars
    /\ [](script = "charts" /\ status = "done" => font \in {"arial", "default"})

C5_Witness ==
    /\ script = "charts"
    /\ font = "default"
    /\ status = "failed"
    /\ pc = "save"
    /\ Len(slides) = 5
    /\ stdout = <<>>

(* C6: the summary slide of the chart deck reports 75.00/73.00 = 1.0274    *)
(* as 1.03 and (75.00 - 73.00)/75.00 x 100 = 2.67 as 2.7.                   *)
C6_SummaryFigures ==
    /\ chart_averages = <<7500, 7300>>
    /\ RoundDiv(chart_averages[1] * 10000, chart_averages[2]) = 10274
    /\ RoundDiv((chart_averages[1] - chart_averages[2]) * 10000, chart_averages[1]) = 267
    /\ script = "charts" =>
          \A k \in 1..Len(slides) :
              slides[k].title = "Summary & Recommendations" =>
                  slides[k].paragraphs[2] =
                      "Avg speedup (padding): 1.03x (~2.7% reduction)"

C6_Witness ==
    /\ ChartsDone
    /\ saved[5].paragraphs[2] = "Avg speedup (padding): 1.03x (~2.7% reduction)"

(* Arithmetic on base-1000 limbs, least significant limb first *)
Reverse(q) == [i \in 1..Len(q) |-> q[Len(q) + 1 - i]]

RECURSIVE LimbsTimes(_, _, _)
LimbsTimes(le, k, carry) ==
    IF le = <<>>
    THEN IF carry = 0 THEN <<>>
         ELSE <<carry % 1000>> \o LimbsTimes(<<>>, k, carry \div 1000)
    ELSE LET v == Head(le) * k + carry
         IN  <<v % 1000>> \o LimbsTimes(Tail(le), k, v \div 1000)

RECURSIVE LimbsLess(_, _)
LimbsLess(a, b) ==
    IF Len(a) # Len(b) THEN Len(a) < Len(b)
    ELSE IF a = <<>> THEN FALSE
    ELSE IF a[Len(a)] # b[Len(b)] THEN a[Len(a)] < b[Len(b)]
    ELSE LimbsLess(SubSeq(a, 1, Len(a) - 1), SubSeq(b, 1, Len(b) - 1))

(* q is num/den rounded to two decimals, in hundredths:                    *)
(* (2q - 1) den <= 200 num < (2q + 1) den                                   *)
IsRoundedQuotient(q, num, den) ==
    LET n == LimbsTimes(Reverse(num), 200, 0)
        lo == LimbsTimes(Reverse(den), 2 * q - 1, 0)
        hi == LimbsTimes(Reverse(den), 2 * q + 1, 0)
    IN  ~LimbsLess(n, lo) /\ LimbsLess(n, hi)

(* C7: the throughput gain printed on 'Final Averages' is                  *)
(* throughput_optimized / throughput_unoptimized rounded to two decimals,   *)
(* 2739726027 / 2666666667 -> 1.03.                                         *)
C7_ThroughputGain ==
    /\ IsRoundedQuotient(throughput.gain, throughput.optimized, throughput.false_sharing)
    /\ script = "text" =>
          \A k \in 1..Len(slides) :
              slides[k].title = "Final Averages" =>
                  /\ slides[k].paragraphs[5] = "Throughput (False sharing): 2,666,666,667 ops/sec"
                  /\ slides[k].paragraphs[6] = "Throughput (Optimized):     2,739,726,027 ops/sec"
                  /\ slides[k].paragraphs[7] = "Throughput gain:            1.03x"

C7_Witness ==
    /\ TextDone
    /\ saved[9].title = "Final Averages"
    /\ saved[9].paragraphs[7] = "Throughput gain:            1.03x"

(* C8: the 'Final Averages' slide prints, next to the speedup s, the       *)
(* percentage (s - 1) x 100 with one decimal; for 1.03 it prints 3.0.       *)
C8_Expected(s) ==
    CASE s = 88  -> "Speedup:             0.88x (-12.0% time reduction)"
      [] s = 100 -> "Speedup:             1.00x (0.0% time reduction)"
      [] s = 103 -> "Speedup:             1.03x (3.0% time reduction)"
      [] s = 105 -> "Speedup:             1.05x (5.0% time reduction)"
      [] s = 119 -> "Speedup:             1.19x (19.0% time reduction)"

C8_PercentReduction ==
    script = "text" =>
        \A k \in 1..Len(slides) :
            slides[k].title = "Final Averages" =>
                slides[k].paragraphs[3] = C8_Expected(averages.speedup)

C8_Witness ==
    /\ TextDone
    /\ averages.speedup = 103
    /\ saved[9].paragraphs[3] = "Speedup:             1.03x (3.0% time reduction)"

(* Mean of column k of the runs, to two decimals *)
RECURSIVE ColumnSum(_, _)
ColumnSum(rs, k) == IF rs = <<>> THEN 0 ELSE Head(rs)[k] + ColumnSum(Tail(rs), k)

Mean(rs, k) == RoundDiv(ColumnSum(rs, k), Len(rs))

MeasuredDataset == runs = measured_runs /\ averages = measured_averages

(* C9 as stated: the averages of the dataset are the means of its runs:    *)
(* of the unoptimized times, of the optimized times and of the speedups.    *)
C9_AveragesAreMeans ==
    MeasuredDataset =>
        /\ averages.false_sharing = Mean(runs, 1)
        /\ averages.optimized = Mean(runs, 2)
        /\ averages.speedup = Mean(runs, 3)

(* C9 amended: averages.false_sharing and averages.optimized are the means *)
(* of the runs' times; averages.speedup is the quotient of those two means  *)
(* to two decimals (75.00/73.00 -> 1.03), not the mean of the runs'         *)
(* speedups (1.04).                                                         *)
C9_SpeedupOfMeans ==
    MeasuredDataset =>
        /\ averages.false_sharing = Mean(runs, 1)
        /\ averages.optimized = Mean(runs, 2)
        /\ averages.speedup = RoundDiv(Mean(runs, 1) * 100, Mean(runs, 2))
        /\ averages.speedup # Mean(runs, 3)

C9_Witness ==
    /\ MeasuredDataset
    /\ TextDone
    /\ saved[9].paragraphs[1] = "Avg without padding: 75.00 ms"
    /\ saved[9].paragraphs[2] = "Avg with padding:    73.00 ms"

(* C10: the effects of a run of the charts script happen in one fixed      *)
(* order: the four image files are written before the first slide is added; *)
(* every embedded picture is one of those files, written earlier in the     *)
(* run; the deck is saved once, after the last slide; the confirmation is   *)
(* printed only after the save; nothing is added after the save.            *)
ImageFiles ==
    { "timing_per_run.png", "throughput_avg.png",
      "illustration_false_sharing.png", "illustration_padded.png" }

WritesBefore(i) ==
    { log[j].arg : j \in { n \in 1..(i - 1) : log[n].op \in {"savefig", "img.save"} } }

Positions(op) == { i \in 1..Len(log) : log[i].op = op }

C10_FixedOrder ==
    script = "charts" =>
        /\ \A i \in Positions("add_slide") : WritesBefore(i) = ImageFiles
        /\ \A i \in Positions("add_picture") :
              log[i].arg \in ImageFiles /\ log[i].arg \in WritesBefore(i)
        /\ Cardinality(Positions("save")) <= 1
        /\ \A i \in Positions("save") :
              /\ \A j \in Positions("add_slide") \cup Positions("add_picture") : j < i
              /\ Cardinality(Positions("add_slide")) = 5
        /\ \A i \in Positions("print") : \E j \in Positions("save") : j < i
        /\ Cardinality(Positions("print")) <= 1
        /\ status = "done" =>
              Cardinality(Positions("save")) = 1 /\ Cardinality(Positions("print")) = 1
        /\ ImageFiles \cap files = WritesBefore(Len(log) + 1)

C10_Witness ==
    /\ ChartsDone
    /\ Len(log) = 15
    /\ log[4].op = "img.save"
    /\ log[5].op = "add_slide"
    /\ log[14].op = "save"
    /\ log[15].op = "print"

====
